---- MODULE Spec2Model ----
(***************************************************************************)
(* Model of src/src/basic_mcp_server/client.py: the OAuth callback         *)
(* listener (CallbackHandler, CallbackServer), the connection flow         *)
(* (MCPAuthClient.connect_2_mcp_server with its callback_handler) and the  *)
(* interactive command loop (MCPAuthClient.interactive_loop).              *)
(*                                                                         *)
(* Two execution contexts share callback_data: the foreground (pc) and the *)
(* listener thread running serve_forever (lpc).  Every read and write of   *)
(* callback_data is a step of its own, so every interleaving the threads   *)
(* can produce is a behaviour of Spec.                                     *)
(*                                                                         *)
(* Values carried by a redirect request are tagged with the request's      *)
(* serial number: request i carries code i, state i and error i (when it   *)
(* carries that parameter at all); 0 stands for Python's None.             *)
(*                                                                         *)
(* Spec is the connection flow up to the return of connect_2_mcp_server;   *)
(* LoopSpec is the interactive loop on an established session.             *)
(***************************************************************************)
EXTENDS Integers, Sequences, FiniteSets, TLC

\* ------------------------------------------------------------- bounds
\* Redirect requests the environment sends to the listener.
MaxRequests == 2
\* wait_for_callback's timeout (300 s in the source), in poll intervals of
\* time.sleep(0.1), scaled down.
TimeoutTicks == 2
\* Atoms in one line of input to the interactive loop.
MaxLineLen == 5
\* Calls of stop() by a caller that uses CallbackServer directly.
MaxStops == 2

None == 0

VARIABLES
  transport,        \* MCPAuthClient.transport
  cb_addr,          \* MCPAuthClient.cb_host, cb_port, given to CallbackServer
  redirect_uri,     \* host and port of client_metadata_dict["redirect_uris"][0]
  pc,               \* foreground position in connect_2_mcp_server
  exc,              \* exception in flight / caught in the foreground
  exc_detail,       \* text carried by an "OAuth error: ..." exception
  logged,           \* what the except block of connect_2_mcp_server reported
  server_instance,  \* CallbackServer.server_instance: "None", "bound", "closed"
  thread,           \* CallbackServer.thread: "None", "unstarted", "running", "exited"
  shutdown_request, \* HTTPServer's shutdown flag, set by shutdown()
  callback_data,    \* CallbackServer.callback_data
  state_src,        \* history: serial of the request that last wrote "state"
  lpc,              \* listener thread position inside do_GET
  req,              \* the request do_GET is handling
  nreq,             \* requests accepted so far
  status,           \* status of the last response sent
  first_done,       \* history: a request carrying code or error was handled
  clock,            \* time.time(), in poll intervals
  start_time,       \* wait_for_callback's start_time
  auth_code,        \* callback_handler's auth_code
  ret,              \* what callback_handler returned
  outcome_in_wait,  \* history: a terminal request was handled before the wait ended
  code_in_time,     \* history: a request with code was handled before the deadline
  start_calls,      \* history: calls of CallbackServer.start
  stop_calls,       \* history: calls of CallbackServer.stop
  browser,          \* history: webbrowser.open: "no", "opened", "failed"
  transport_opened, \* history: sse_client / streamablehttp_client entered
  session,          \* MCPAuthClient.session: "None", "open"
  loop_pc,          \* position in interactive_loop
  command,          \* interactive_loop's command
  report,           \* what the loop reported for the current line
  remote,           \* the remote call issued for the current line
  ncalls,           \* remote calls issued for the current line
  conn_error,       \* history: a remote call failed at the transport level
  eof               \* history: input() raised EOFError or KeyboardInterrupt

connect_vars == <<transport, cb_addr, redirect_uri, pc, exc, exc_detail, logged, server_instance, thread,
                  shutdown_request, callback_data, state_src, lpc, req, nreq, status,
                  first_done, clock, start_time, auth_code, ret, outcome_in_wait,
                  code_in_time,
                  start_calls, stop_calls, browser, transport_opened, session>>
loop_vars == <<loop_pc, command, report, remote, ncalls, conn_error, eof>>
vars == <<connect_vars, loop_vars>>

\* ------------------------------------------------------- CallbackServer
\* cli, lines 383-384: --cbhost and --cbport; a port is kept as its text.
Addrs == [host : {"localhost", "127.0.0.1"}, port : {"3030", "3000"}]

\* cli, lines 383-384: the defaults of --cbhost and --cbport (CB_PORT unset).
DefaultAddr == [host |-> "localhost", port |-> "3030"]

NoAddr == [host |-> "None", port |-> "None"]

EmptyCallbackData == [authorization_code |-> None, state |-> None, error |-> None]

NoReq == [id |-> 0, code |-> FALSE, state |-> FALSE, error |-> FALSE]

NoRet == [code |-> None, state |-> None, state_src |-> 0]

\* The query parameters a redirect request may carry (parse_qs keys).
Requests(i) == [id : {i}, code : BOOLEAN, state : BOOLEAN, error : BOOLEAN]

Terminal(r) == r.code \/ r.error

\* Python truthiness of a callback_data field: None is falsy, and parse_qs
\* drops blank values, so every recorded string is non-empty.
Truthy(v) == v # None

ForegroundVars == <<transport, cb_addr, redirect_uri, pc, exc, exc_detail, logged, clock, start_time, auth_code,
                    ret, start_calls, stop_calls, browser, transport_opened, session>>

ServerVars == <<server_instance, thread, shutdown_request>>

ListenerVars == <<callback_data, state_src, lpc, req, nreq, status, first_done,
                  outcome_in_wait, code_in_time>>

\* The foreground is still inside wait_for_callback (its outcome is not yet fixed).
WaitPcs == {"w_begin", "w_loop", "w_test_code", "w_ret_code", "w_test_error",
            "w_raise_error", "w_sleep"}

WaitOpen ==
  pc \in WaitPcs \/ pc \in {"connect", "metadata", "match", "open_transport", "redirect"}

\* The wait has not ended and its deadline (line 161) has not passed.
InTime == WaitOpen /\ clock - start_time < TimeoutTicks

Branch_StateAsCode(r) ==
  IF r.code \/ r.state THEN "line94" ELSE IF r.error THEN "line101" ELSE "line107"

\* lines 93, 100, 106: if "code" in query_params / elif "error" / else
Branch(r) == IF r.code THEN "line94" ELSE IF r.error THEN "line101" ELSE "line107"

\* do_GET, lines 88-93/100/106: parse the query and take a branch.  The
\* serve_forever loop accepts a request only while no shutdown is requested.
DoGetBegin ==
  /\ thread = "running" /\ server_instance = "bound" /\ ~shutdown_request
  /\ lpc = "idle" /\ nreq < MaxRequests
  /\ \E r \in Requests(nreq + 1) :
       /\ req' = r
       /\ lpc' = Branch(r)
       /\ outcome_in_wait' = (outcome_in_wait \/ (Terminal(r) /\ WaitOpen))
  /\ nreq' = nreq + 1
  /\ UNCHANGED <<callback_data, state_src, status, first_done, code_in_time>>
  /\ UNCHANGED ForegroundVars /\ UNCHANGED ServerVars /\ UNCHANGED loop_vars

\* line 94: callback_data["authorization_code"] = query_params["code"][0]
WriteCode(cd, r) == [cd EXCEPT !.authorization_code = r.id]

WriteState_Dropped(cd, r) == cd

\* line 95: callback_data["state"] = query_params.get("state", [None])[0]
WriteState(cd, r) == [cd EXCEPT !.state = IF r.state THEN r.id ELSE None]

WriteError_AsCode(cd, r) == [cd EXCEPT !.authorization_code = r.id]

\* line 101: callback_data["error"] = query_params["error"][0]
WriteError(cd, r) == [cd EXCEPT !.error = r.id]

DoGetCode ==
  /\ lpc = "line94"
  /\ callback_data' = WriteCode(callback_data, req)
  /\ lpc' = "line95"
  /\ UNCHANGED <<state_src, req, nreq, status, first_done, outcome_in_wait, code_in_time>>
  /\ UNCHANGED ForegroundVars /\ UNCHANGED ServerVars /\ UNCHANGED loop_vars

DoGetState ==
  /\ lpc = "line95"
  /\ callback_data' = WriteState(callback_data, req)
  /\ state_src' = req.id
  /\ status' = 200
  /\ first_done' = TRUE
  /\ lpc' = "idle" /\ req' = NoReq
  /\ code_in_time' = (code_in_time \/ InTime)
  /\ UNCHANGED <<nreq, outcome_in_wait>>
  /\ UNCHANGED ForegroundVars /\ UNCHANGED ServerVars /\ UNCHANGED loop_vars

DoGetError ==
  /\ lpc = "line101"
  /\ callback_data' = WriteError(callback_data, req)
  /\ status' = 400
  /\ first_done' = TRUE
  /\ lpc' = "idle" /\ req' = NoReq
  /\ UNCHANGED <<state_src, nreq, outcome_in_wait, code_in_time>>
  /\ UNCHANGED ForegroundVars /\ UNCHANGED ServerVars /\ UNCHANGED loop_vars

DoGetNotFound ==
  /\ lpc = "line107"
  /\ status' = 404
  /\ lpc' = "idle" /\ req' = NoReq
  /\ UNCHANGED <<callback_data, state_src, nreq, first_done, outcome_in_wait, code_in_time>>
  /\ UNCHANGED ForegroundVars /\ UNCHANGED ServerVars /\ UNCHANGED loop_vars

\* serve_forever leaves its loop once shutdown() set the flag and the request
\* in progress, if any, is finished; on its way out it clears the flag and
\* sets the event shutdown() waits for.
ServeForeverExit ==
  /\ thread = "running" /\ shutdown_request /\ lpc = "idle"
  /\ thread' = "exited"
  /\ shutdown_request' = FALSE
  /\ UNCHANGED server_instance
  /\ UNCHANGED ForegroundVars /\ UNCHANGED ListenerVars /\ UNCHANGED loop_vars

\* ------------------------------------------------- CallbackServer.start/stop
OnStartFailure_Swallowed == "metadata"

\* Where control goes when start() raises (line 192 is inside the try of
\* line 190, whose only handler is the except of line 251).
OnStartFailure == "except"

\* start(), lines 137-145: HTTPServer(...) binds the port or raises OSError;
\* thread.start() starts the daemon thread that runs serve_forever, or
\* raises RuntimeError when no thread can be started.
Start ==
  /\ pc = "connect"
  /\ start_calls' = start_calls + 1
  /\ \/ /\ server_instance' = "bound"
        /\ thread' = "running"
        /\ pc' = "metadata"
        /\ UNCHANGED exc
     \/ /\ exc' = "OSError"
        /\ pc' = OnStartFailure
        /\ UNCHANGED <<server_instance, thread>>
     \/ /\ server_instance' = "bound"
        /\ thread' = "unstarted"
        /\ exc' = "RuntimeError"
        /\ pc' = OnStartFailure
  /\ UNCHANGED <<transport, cb_addr, redirect_uri, exc_detail, logged, shutdown_request, clock, start_time,
                 auth_code, ret, stop_calls, browser, transport_opened, session>>
  /\ UNCHANGED ListenerVars /\ UNCHANGED loop_vars

\* stop(), lines 147-152: shutdown() sets the flag and blocks until
\* serve_forever has left its loop.
StopShutdown ==
  /\ pc = "stop"
  /\ server_instance # "None"
  /\ stop_calls' = stop_calls + 1
  /\ shutdown_request' = TRUE
  /\ pc' = "stop_wait"
  /\ UNCHANGED <<transport, cb_addr, redirect_uri, exc, exc_detail, logged, server_instance, thread, clock,
                 start_time, auth_code, ret, start_calls, browser, transport_opened,
                 session>>
  /\ UNCHANGED ListenerVars /\ UNCHANGED loop_vars

ShutdownReturns_NoWait == TRUE

\* line 152: shutdown() returns when serve_forever has left its loop and set
\* the event shutdown() waits for.
ShutdownReturns == thread = "exited"

\* stop(), lines 152-155: shutdown() returns, server_close() releases the
\* socket, join() finds the thread finished.
StopClose ==
  /\ pc = "stop_wait"
  /\ ShutdownReturns
  /\ server_instance' = "closed"
  /\ pc' = "cb_done"
  /\ UNCHANGED <<transport, cb_addr, redirect_uri, exc, exc_detail, logged, thread, shutdown_request, clock,
                 start_time, auth_code, ret, start_calls, stop_calls, browser,
                 transport_opened, session>>
  /\ UNCHANGED ListenerVars /\ UNCHANGED loop_vars

\* ------------------------------------------ CallbackServer.wait_for_callback
\* line 161: while time.time() - start_time < timeout
LoopCondition(now, start) == now - start < TimeoutTicks

AfterWait_NoFinally == "cb_done"

\* Where callback_handler goes when wait_for_callback and get_state are
\* over, by return or by exception: the finally of lines 201-202.
AfterWait == "stop"

\* The fields of the three steps below that no wait step changes.
WaitFrame ==
  /\ UNCHANGED <<transport, cb_addr, redirect_uri, logged, start_calls, stop_calls, browser, transport_opened,
                 session>>
  /\ UNCHANGED ServerVars /\ UNCHANGED ListenerVars /\ UNCHANGED loop_vars

\* line 160: start_time = time.time()
WaitBegin ==
  /\ pc = "w_begin"
  /\ start_time' = clock
  /\ pc' = "w_loop"
  /\ UNCHANGED <<exc, exc_detail, clock, auth_code, ret>>
  /\ WaitFrame

\* line 161, and line 170 when the condition fails.
WaitLoopTest ==
  /\ pc = "w_loop"
  /\ IF LoopCondition(clock, start_time)
       THEN pc' = "w_test_code" /\ UNCHANGED exc
       ELSE pc' = AfterWait /\ exc' = "Timeout"
  /\ UNCHANGED <<exc_detail, clock, start_time, auth_code, ret>>
  /\ WaitFrame

\* line 163: if self.callback_data["authorization_code"]
WaitTestCode ==
  /\ pc = "w_test_code"
  /\ pc' = IF Truthy(callback_data.authorization_code) THEN "w_ret_code" ELSE "w_test_error"
  /\ UNCHANGED <<exc, exc_detail, clock, start_time, auth_code, ret>>
  /\ WaitFrame

\* line 165: return self.callback_data["authorization_code"] (read again)
WaitReturnCode ==
  /\ pc = "w_ret_code"
  /\ auth_code' = callback_data.authorization_code
  /\ pc' = "get_state"
  /\ UNCHANGED <<exc, exc_detail, clock, start_time, ret>>
  /\ WaitFrame

\* line 166: elif self.callback_data["error"]
WaitTestError ==
  /\ pc = "w_test_error"
  /\ pc' = IF Truthy(callback_data.error) THEN "w_raise_error" ELSE "w_sleep"
  /\ UNCHANGED <<exc, exc_detail, clock, start_time, auth_code, ret>>
  /\ WaitFrame

\* line 167: raise Exception(f"OAuth error: {self.callback_data['error']}")
WaitRaiseError ==
  /\ pc = "w_raise_error"
  /\ exc' = "OAuthError"
  /\ exc_detail' = callback_data.error
  /\ pc' = AfterWait
  /\ UNCHANGED <<clock, start_time, auth_code, ret>>
  /\ WaitFrame

\* line 169: time.sleep(0.1) lasts one poll interval.
WaitSleep ==
  /\ pc = "w_sleep"
  /\ clock' = clock + 1
  /\ pc' = "w_loop"
  /\ UNCHANGED <<exc, exc_detail, start_time, auth_code, ret>>
  /\ WaitFrame

\* Time that passes while the foreground is between two steps of the wait.
Tick ==
  /\ pc \in WaitPcs \ {"w_begin"}
  /\ LoopCondition(clock, start_time)
  /\ clock' = clock + 1
  /\ UNCHANGED <<pc, exc, exc_detail, start_time, auth_code, ret>>
  /\ WaitFrame

\* callback_handler, line 200: return auth_code, callback_server.get_state()
GetState ==
  /\ pc = "get_state"
  /\ ret' = [code |-> auth_code, state |-> callback_data.state, state_src |-> state_src]
  /\ pc' = AfterWait
  /\ UNCHANGED <<exc, exc_detail, clock, start_time, auth_code>>
  /\ WaitFrame

\* -------------------------------------- MCPAuthClient.connect_2_mcp_server
Transports == {"sse", "streamable-http", "streamable_http"}

\* line 231-249: match self.transport
SupportedTransport(t) == t \in {"sse", "streamable-http"}

ConnectFrame ==
  /\ UNCHANGED <<transport, cb_addr, exc_detail, clock, start_time, auth_code, ret, start_calls,
                 stop_calls>>
  /\ UNCHANGED ServerVars /\ UNCHANGED ListenerVars /\ UNCHANGED loop_vars

\* line 211: "redirect_uris": ["http://localhost:3030/callback"]
RedirectUri == [host |-> "localhost", port |-> "3030"]

\* lines 209-215: client_metadata_dict is built once the listener is up.
ClientMetadata ==
  /\ pc = "metadata"
  /\ redirect_uri' = RedirectUri
  /\ pc' = "match"
  /\ UNCHANGED <<exc, logged, browser, transport_opened, session>>
  /\ ConnectFrame

\* lines 231-249: the case _ arm raises ValueError.
Match ==
  /\ pc = "match"
  /\ IF SupportedTransport(transport)
       THEN pc' = "open_transport" /\ UNCHANGED exc
       ELSE pc' = "except" /\ exc' = "ValueError"
  /\ UNCHANGED <<logged, browser, transport_opened, session>>
  /\ UNCHANGED redirect_uri /\ ConnectFrame

\* lines 234-238 / 242-246: the transport is entered and the first request
\* goes out.  The remote end is unreachable (the context manager raises),
\* answers without asking for authorization, or asks for it, and then the
\* provider calls redirect_handler and callback_handler.
OpenTransport ==
  /\ pc = "open_transport"
  /\ transport_opened' = TRUE
  /\ \/ pc' = "except" /\ exc' = "ConnectionError"
     \/ pc' = "run_session" /\ UNCHANGED exc
     \/ pc' = "redirect" /\ UNCHANGED exc
  /\ UNCHANGED <<logged, browser, session>>
  /\ UNCHANGED redirect_uri /\ ConnectFrame

AfterRedirect_FailFatal(b) == IF b = "failed" THEN "except" ELSE "w_begin"

\* line 207: the result of webbrowser.open is dropped; the provider goes on
\* to callback_handler whatever it was.
AfterRedirect(b) == "w_begin"

\* _default_redirect_handler, lines 204-207: webbrowser.open returns True or
\* False.
RedirectHandler ==
  /\ pc = "redirect"
  /\ browser' \in {"opened", "failed"}
  /\ pc' = AfterRedirect(browser')
  /\ UNCHANGED <<exc, logged, transport_opened, session>>
  /\ UNCHANGED redirect_uri /\ ConnectFrame

\* callback_handler is over (lines 194-202).  An exception leaves through
\* the provider and the transport's context manager to the except of line
\* 251; a returned pair goes to the provider's token exchange, which
\* succeeds or raises.
CallbackDone ==
  /\ pc = "cb_done"
  /\ IF exc # "None"
       THEN pc' = "except" /\ UNCHANGED exc
       ELSE \/ pc' = "run_session" /\ UNCHANGED exc
            \/ pc' = "except" /\ exc' = "TokenError"
  /\ UNCHANGED <<logged, browser, transport_opened, session>>
  /\ UNCHANGED redirect_uri /\ ConnectFrame

\* _run_session, lines 256-271: the session is set, initialize() succeeds or
\* raises, and the interactive loop is entered.
RunSession ==
  /\ pc = "run_session"
  /\ session' = "open"
  /\ \/ pc' = "loop" /\ UNCHANGED exc
     \/ pc' = "except" /\ exc' = "ConnectionError"
  /\ UNCHANGED <<logged, browser, transport_opened>>
  /\ UNCHANGED redirect_uri /\ ConnectFrame

\* line 271: interactive_loop runs to its end (LoopSpec has its steps), the
\* context managers exit and connect_2_mcp_server returns.
InteractiveLoopReturns ==
  /\ pc = "loop"
  /\ pc' = "returned"
  /\ UNCHANGED <<exc, logged, browser, transport_opened, session>>
  /\ UNCHANGED redirect_uri /\ ConnectFrame

\* lines 251-254: except Exception as e: logger.error(...); then return.
Except ==
  /\ pc = "except"
  /\ logged' = exc
  /\ pc' = "returned"
  /\ UNCHANGED <<exc, browser, transport_opened, session>>
  /\ UNCHANGED redirect_uri /\ ConnectFrame

\* interactive_loop's variables before the loop is entered.
LoopIdle ==
  /\ loop_pc = "idle"
  /\ command = <<>>
  /\ report = "none"
  /\ remote = [op |-> "none", name |-> <<>>, arguments |-> [type |-> "object", text |-> "{}", truthy |-> FALSE]]
  /\ ncalls = 0
  /\ conn_error = FALSE
  /\ eof = FALSE

\* The state after MCPAuthClient.__init__ (lines 180-185); CallbackServer's
\* fields as its __init__ sets them (lines 117-122).
Init ==
  /\ transport \in Transports
  /\ cb_addr \in Addrs /\ redirect_uri = NoAddr
  /\ pc = "connect"
  /\ exc = "None" /\ exc_detail = None /\ logged = "None"
  /\ server_instance = "None" /\ thread = "None" /\ shutdown_request = FALSE
  /\ callback_data = EmptyCallbackData
  /\ state_src = 0
  /\ lpc = "idle" /\ req = NoReq /\ nreq = 0 /\ status = 0
  /\ first_done = FALSE
  /\ clock = 0 /\ start_time = 0
  /\ auth_code = None /\ ret = NoRet
  /\ outcome_in_wait = FALSE /\ code_in_time = FALSE
  /\ start_calls = 0 /\ stop_calls = 0
  /\ browser = "no" /\ transport_opened = FALSE
  /\ session = "None"
  /\ LoopIdle

Next ==
  \/ Start \/ ClientMetadata \/ Match \/ OpenTransport \/ RedirectHandler
  \/ WaitBegin \/ WaitLoopTest \/ WaitTestCode \/ WaitReturnCode \/ WaitTestError
  \/ WaitRaiseError \/ WaitSleep \/ Tick \/ GetState
  \/ StopShutdown \/ StopClose \/ CallbackDone \/ RunSession
  \/ InteractiveLoopReturns \/ Except
  \/ DoGetBegin \/ DoGetCode \/ DoGetState \/ DoGetError \/ DoGetNotFound
  \/ ServeForeverExit

Spec == Init /\ [][Next]_vars

\* ------------------------------------------- MCPAuthClient.interactive_loop
\* A line of input is a sequence of atoms: the whitespace character, the
\* words the loop knows, a tool name, and three JSON texts.
SP == " "

ObjText == "{\"x\":1}"

ArrText == "[1]"

NullText == "null"

Atoms == {SP, "call", "list", "quit", "mytool", ObjText, ArrText, NullText}

Lines == UNION {[1..n -> Atoms] : n \in 0..MaxLineLen}

\* Python values json.loads can return here, with their truthiness.
EmptyObj == [type |-> "object", text |-> "{}", truthy |-> FALSE]

ObjX1 == [type |-> "object", text |-> ObjText, truthy |-> TRUE]

Arr1 == [type |-> "array", text |-> ArrText, truthy |-> TRUE]

PyNone == [type |-> "null", text |-> NullText, truthy |-> FALSE]

RECURSIVE LStrip(_)
LStrip(s) == IF s # <<>> /\ Head(s) = SP THEN LStrip(Tail(s)) ELSE s

RECURSIVE RStrip(_)
RStrip(s) == IF s # <<>> /\ s[Len(s)] = SP THEN RStrip(SubSeq(s, 1, Len(s) - 1)) ELSE s

\* str.strip(), line 327
Strip(s) == RStrip(LStrip(s))

\* The position of the first whitespace of s, Len(s) + 1 when it has none.
RECURSIVE FirstSp(_, _)
FirstSp(s, i) == IF i > Len(s) \/ s[i] = SP THEN i ELSE FirstSp(s, i + 1)

\* str.split(maxsplit=n), line 339: runs of whitespace separate the parts, and
\* after n splits the rest of the string is the last part.
RECURSIVE Split(_, _)
Split(s, n) ==
  LET t == LStrip(s) IN
  IF t = <<>> THEN <<>>
  ELSE IF n = 0 THEN <<t>>
  ELSE LET k == FirstSp(t, 1) IN
       <<SubSeq(t, 1, k - 1)>> \o Split(SubSeq(t, k, Len(t)), n - 1)

\* command.startswith("call "), line 338
StartsWithCall(s) == Len(s) >= 2 /\ s[1] = "call" /\ s[2] = SP

\* json.loads, line 349: the value, or JSONDecodeError.  Two texts side by
\* side or separated by whitespace are no JSON document.
json_loads(s) ==
  IF Len(s) = 1 /\ s[1] = ObjText THEN [ok |-> TRUE, value |-> ObjX1]
  ELSE IF Len(s) = 1 /\ s[1] = ArrText THEN [ok |-> TRUE, value |-> Arr1]
  ELSE IF Len(s) = 1 /\ s[1] = NullText THEN [ok |-> TRUE, value |-> PyNone]
  ELSE [ok |-> FALSE, value |-> PyNone]

NoCommand == [kind |-> "none", name |-> <<>>, arguments |-> EmptyObj]

ParseArguments_ErrorIgnored(parts) ==
  [kind |-> "call", name |-> parts[2],
   arguments |-> IF Len(parts) > 2 /\ json_loads(parts[3]).ok
                   THEN json_loads(parts[3]).value ELSE EmptyObj]

\* lines 346-352: arguments = {} unless a third part is there, which
\* json.loads parses; JSONDecodeError is reported and the line dropped.
ParseArguments(parts) ==
  IF Len(parts) > 2
    THEN LET j == json_loads(parts[3]) IN
         IF j.ok THEN [kind |-> "call", name |-> parts[2], arguments |-> j.value]
         ELSE [NoCommand EXCEPT !.kind = "invalid_json"]
    ELSE [kind |-> "call", name |-> parts[2], arguments |-> EmptyObj]

\* lines 338-344: the branch of a line that starts with "call ".
ParseCall(cmd) ==
  LET parts == Split(cmd, 2)
      tool_name == IF Len(parts) > 1 THEN parts[2] ELSE <<>>
  IN IF tool_name = <<>> THEN [NoCommand EXCEPT !.kind = "specify_tool"]
     ELSE ParseArguments(parts)

Dispatch_UnknownQuits(cmd) ==
  IF cmd = <<>> THEN [NoCommand EXCEPT !.kind = "empty"]
  ELSE IF cmd = <<"list">> THEN [NoCommand EXCEPT !.kind = "list"]
  ELSE IF StartsWithCall(cmd) THEN ParseCall(cmd)
  ELSE [NoCommand EXCEPT !.kind = "quit"]

\* lines 329-357: what the loop does with a stripped line.
Dispatch(cmd) ==
  IF cmd = <<>> THEN [NoCommand EXCEPT !.kind = "empty"]
  ELSE IF cmd = <<"quit">> THEN [NoCommand EXCEPT !.kind = "quit"]
  ELSE IF cmd = <<"list">> THEN [NoCommand EXCEPT !.kind = "list"]
  ELSE IF StartsWithCall(cmd) THEN ParseCall(cmd)
  ELSE [NoCommand EXCEPT !.kind = "unknown"]

\* call_tool, line 300: session.call_tool(tool_name, arguments or {})
ArgumentsOrEmpty(a) == IF a.truthy THEN a ELSE EmptyObj

NoRemote == [op |-> "none", name |-> <<>>, arguments |-> EmptyObj]

OnRemoteException_EndsLoop == "ended"

\* Where the loop goes when list_tools or call_tool caught an exception of
\* the session (lines 290-291, 314-315): they log it and return.
OnRemoteException == "next"

\* lines 327-357: one line is read, stripped and dispatched, up to the
\* report it causes or the remote call it issues.
ReadLine ==
  /\ loop_pc = "input"
  /\ \E line \in Lines :
       LET cmd == Strip(line)
           c == Dispatch(cmd)
       IN /\ command' = cmd
          /\ loop_pc' = CASE c.kind = "quit" -> "ended"
                          [] c.kind = "list" -> "await_list"
                          [] c.kind = "call" -> "await_call"
                          [] OTHER -> "next"
          /\ report' = IF c.kind \in {"specify_tool", "invalid_json", "unknown"}
                         THEN c.kind ELSE "none"
          /\ remote' = CASE c.kind = "list" -> [NoRemote EXCEPT !.op = "list_tools"]
                         [] c.kind = "call" ->
                              [op |-> "call_tool", name |-> c.name,
                               arguments |-> ArgumentsOrEmpty(c.arguments)]
                         [] OTHER -> NoRemote
          /\ ncalls' = IF c.kind \in {"list", "call"} THEN 1 ELSE 0
  /\ UNCHANGED <<conn_error, eof>> /\ UNCHANGED connect_vars

\* lines 359-363: input() raises EOFError or KeyboardInterrupt.
ReadEOF ==
  /\ loop_pc = "input"
  /\ loop_pc' = "ended"
  /\ eof' = TRUE
  /\ UNCHANGED <<command, report, remote, ncalls, conn_error>>
  /\ UNCHANGED connect_vars

\* list_tools, lines 279-291: the session answers with tools or none, or
\* session.list_tools raises.
ListReply ==
  /\ loop_pc = "await_list"
  /\ \/ report' \in {"tools_listed", "no_tools"} /\ loop_pc' = "next" /\ UNCHANGED conn_error
     \/ report' = "failed_list" /\ loop_pc' = OnRemoteException /\ conn_error' = TRUE
  /\ UNCHANGED <<command, remote, ncalls, eof>>
  /\ UNCHANGED connect_vars

\* call_tool, lines 299-315: the session answers with content, with an
\* isError result or without content, or session.call_tool raises.
CallReply ==
  /\ loop_pc = "await_call"
  /\ \/ /\ report' \in {"tool_result", "tool_error", "no_content"}
        /\ loop_pc' = "next" /\ UNCHANGED conn_error
     \/ report' = "failed_call" /\ loop_pc' = OnRemoteException /\ conn_error' = TRUE
  /\ UNCHANGED <<command, remote, ncalls, eof>>
  /\ UNCHANGED connect_vars

\* line 325: back to the top of while True; nothing of the last line is kept.
NextLine ==
  /\ loop_pc = "next"
  /\ loop_pc' = "input"
  /\ command' = <<>> /\ report' = "none" /\ remote' = NoRemote /\ ncalls' = 0
  /\ UNCHANGED <<conn_error, eof>>
  /\ UNCHANGED connect_vars

\* The state in which _run_session enters interactive_loop (line 271) when
\* the remote end asked for no authorization: the listener started at line
\* 192 is running and has handled nothing yet.
LoopInit ==
  /\ transport \in {t \in Transports : SupportedTransport(t)}
  /\ cb_addr = DefaultAddr /\ redirect_uri = RedirectUri
  /\ pc = "loop"
  /\ exc = "None" /\ exc_detail = None /\ logged = "None"
  /\ server_instance = "bound" /\ thread = "running" /\ shutdown_request = FALSE
  /\ callback_data = EmptyCallbackData
  /\ state_src = 0
  /\ lpc = "idle" /\ req = NoReq /\ nreq = 0 /\ status = 0
  /\ first_done = FALSE
  /\ clock = 0 /\ start_time = 0
  /\ auth_code = None /\ ret = NoRet
  /\ outcome_in_wait = FALSE /\ code_in_time = FALSE
  /\ start_calls = 1 /\ stop_calls = 0
  /\ browser = "no" /\ transport_opened = TRUE
  /\ session = "open"
  /\ loop_pc = "input"
  /\ command = <<>>
  /\ report = "none"
  /\ remote = NoRemote
  /\ ncalls = 0
  /\ conn_error = FALSE
  /\ eof = FALSE

LoopNext == ReadLine \/ ReadEOF \/ ListReply \/ CallReply \/ NextLine

LoopSpec == LoopInit /\ [][LoopNext]_vars

\* --------------------------------------------- CallbackServer, used directly
\* A caller that owns one CallbackServer and calls start() once, or not at
\* all, and stop() up to MaxStops times.
ServerInit ==
  /\ transport = "streamable-http"
  /\ cb_addr \in Addrs /\ redirect_uri = NoAddr
  /\ pc = "srv_new"
  /\ exc = "None" /\ exc_detail = None /\ logged = "None"
  /\ server_instance = "None" /\ thread = "None" /\ shutdown_request = FALSE
  /\ callback_data = EmptyCallbackData
  /\ state_src = 0
  /\ lpc = "idle" /\ req = NoReq /\ nreq = 0 /\ status = 0
  /\ first_done = FALSE
  /\ clock = 0 /\ start_time = 0
  /\ auth_code = None /\ ret = NoRet
  /\ outcome_in_wait = FALSE /\ code_in_time = FALSE
  /\ start_calls = 0 /\ stop_calls = 0
  /\ browser = "no" /\ transport_opened = FALSE
  /\ session = "None"
  /\ LoopIdle

\* start(), lines 137-145, called by that caller, who keeps control when it
\* raises.
SrvStart ==
  /\ pc = "srv_new"
  /\ start_calls' = start_calls + 1
  /\ pc' = "srv_ready"
  /\ \/ server_instance' = "bound" /\ thread' = "running" /\ UNCHANGED exc
     \/ exc' = "OSError" /\ UNCHANGED <<server_instance, thread>>
     \/ server_instance' = "bound" /\ thread' = "unstarted" /\ exc' = "RuntimeError"
  /\ UNCHANGED <<transport, cb_addr, redirect_uri, exc_detail, logged, shutdown_request, clock, start_time,
                 auth_code, ret, stop_calls, browser, transport_opened, session>>
  /\ UNCHANGED ListenerVars /\ UNCHANGED loop_vars

\* The caller calls stop(): before start(), after it, or after a stop().
SrvCallStop ==
  /\ pc \in {"srv_new", "srv_ready", "cb_done"}
  /\ stop_calls < MaxStops
  /\ pc' = "stop"
  /\ UNCHANGED <<transport, cb_addr, redirect_uri, exc, exc_detail, logged, clock, start_time, auth_code, ret,
                 start_calls, stop_calls, browser, transport_opened, session>>
  /\ UNCHANGED ServerVars /\ UNCHANGED ListenerVars /\ UNCHANGED loop_vars

\* stop(), lines 151 and 154 with server_instance and thread both None:
\* nothing to shut down, nothing to join.
StopNoServer ==
  /\ pc = "stop"
  /\ server_instance = "None"
  /\ stop_calls' = stop_calls + 1
  /\ pc' = "cb_done"
  /\ UNCHANGED <<transport, cb_addr, redirect_uri, exc, exc_detail, logged, clock, start_time, auth_code, ret,
                 start_calls, browser, transport_opened, session>>
  /\ UNCHANGED ServerVars /\ UNCHANGED ListenerVars /\ UNCHANGED loop_vars

ServerNext ==
  \/ SrvStart \/ SrvCallStop \/ StopNoServer \/ StopShutdown \/ StopClose
  \/ DoGetBegin \/ DoGetCode \/ DoGetState \/ DoGetError \/ DoGetNotFound
  \/ ServeForeverExit

ServerSpec == ServerInit /\ [][ServerNext]_vars

\* The scheduler runs both threads: a foreground step of callback_handler
\* that can be taken is taken, and so is a step of the listener thread.
Foreground ==
  \/ WaitBegin \/ WaitLoopTest \/ WaitTestCode \/ WaitReturnCode \/ WaitTestError
  \/ WaitRaiseError \/ WaitSleep \/ GetState \/ StopShutdown \/ StopClose

Listener == DoGetCode \/ DoGetState \/ DoGetError \/ DoGetNotFound \/ ServeForeverExit

FairSpec == Spec /\ WF_vars(Foreground) /\ WF_vars(Listener)

\* ---------------------------------------------------------- re-authorization
\* lines 219-228: redirect_handler and callback_handler are handed to the
\* provider, which calls them again when the server asks for authorization
\* during the session; callback_handler closes over the CallbackServer of
\* line 191.  The flow from the redirect on is the one of the first
\* invocation.  At most MaxStops invocations are followed.
Reauthorize ==
  /\ pc = "loop"
  /\ stop_calls < MaxStops
  /\ pc' = "redirect"
  /\ UNCHANGED <<exc, logged, browser, transport_opened, session>>
  /\ UNCHANGED redirect_uri /\ ConnectFrame

ReauthNext == Next \/ Reauthorize

ReauthSpec == Init /\ [][ReauthNext]_vars

\* =================================================================== claims

\* A listener was started by this call of connect_2_mcp_server.
Started == server_instance # "None"

\* C1: on every exit path of connect_2_mcp_server that follows a successful
\* start(), stop() has been called before the function returns, so that no
\* listener is left running.
C1_StoppedOnEveryExit ==
  (pc = "returned" /\ Started) =>
     (stop_calls > 0 /\ server_instance = "closed" /\ thread = "exited")

\* C2: the recorded outcome is that of the first request carrying code or
\* error: once such a request has been handled, no later request changes any
\* field of callback_data.
C2_FirstOutcomeFinal == [][first_done => callback_data' = callback_data]_vars

\* C3: the (code, state) pair callback_handler returns comes from one single
\* request: the state it returns was written by the request whose code it
\* returns.
C3_PairFromOneRequest == ret # NoRet => (ret.code # None /\ ret.state_src = ret.code)

\* C4: when no request carrying code or error is handled before the wait is
\* over, the wait ends (it does not hang) with the timeout error and no
\* code, and the listener is stopped when callback_handler hands the failure
\* to its caller.
C4_TimeoutThenStopped ==
  /\ [](pc = "cb_done" /\ ~outcome_in_wait =>
          /\ exc = "Timeout" /\ ret = NoRet /\ auth_code = None
          /\ server_instance = "closed" /\ thread = "exited" /\ stop_calls = 1)
  /\ (pc \in WaitPcs ~> pc \notin WaitPcs)

C4_Witness == pc = "cb_done" /\ ~outcome_in_wait /\ exc = "Timeout" /\ nreq > 0

\* C5: whenever an error outcome is recorded, the wait fails with the OAuth
\* error carrying the recorded text and returns no code: the wait neither
\* returns a code nor raises the timeout error while callback_data holds an
\* error, and the error it raises carries the text recorded.
C5_ErrorOutcomeSurfaces ==
  [][/\ (pc = "w_ret_code" /\ pc' = "get_state") => callback_data.error = None
     /\ (pc = "w_loop" /\ exc' = "Timeout") => callback_data.error = None
     /\ (pc = "w_raise_error" /\ exc' = "OAuthError") => exc_detail' = callback_data.error
    ]_vars

\* C6: when start() fails to bind the port the failure is reported and the
\* attempt ends: no browser redirect, no transport, no session, no
\* interactive loop, and no second start().
C6_BindFailureEndsAttempt ==
  exc = "OSError" =>
    /\ pc \in {"except", "returned"}
    /\ pc = "returned" => logged = "OSError"
    /\ browser = "no" /\ ~transport_opened /\ session = "None" /\ loop_pc = "idle"
    /\ start_calls = 1 /\ ~Started /\ thread = "None"

C6_Witness == exc = "OSError" /\ pc = "returned" /\ logged = "OSError"

\* The line in command is a call with an argument text (the third part of
\* line 339's split), and what json.loads makes of that text.
HasArgumentText(cmd) == StartsWithCall(cmd) /\ Len(Split(cmd, 2)) > 2

ArgumentJson(cmd) == json_loads(Split(cmd, 2)[3])

C8_BareCallMissingName ==
  (command = <<"call">> /\ loop_pc # "input") =>
     (report = "specify_tool" /\ ncalls = 0 /\ loop_pc = "next")

\* C9: every invocation carries a JSON object as arguments: a call line
\* whose argument text is valid JSON but no object is rejected as an input
\* error and issues no remote call.
C9_NonObjectRejected ==
  /\ loop_pc = "await_call" => remote.arguments.type = "object"
  /\ (HasArgumentText(command) /\ ArgumentJson(command).ok
        /\ ArgumentJson(command).value.type # "object") =>
       (report = "invalid_json" /\ ncalls = 0 /\ loop_pc = "next")

\* C10: a call line whose argument text json.loads rejects is reported as
\* an input error, causes no remote call, and the loop goes on to the next
\* line.
C10_InvalidJsonReported ==
  (HasArgumentText(command) /\ ~ArgumentJson(command).ok) =>
     (report = "invalid_json" /\ ncalls = 0 /\ remote = NoRemote /\ loop_pc = "next")

C10_Witness ==
  /\ command = <<"call", SP, "mytool", SP, "list">>
  /\ report = "invalid_json" /\ loop_pc = "next"

\* C11: the interactive loop ends only on quit or at the end of input: after
\* an empty line, an unknown command, a malformed call, or a list or call
\* whose result is an application-level failure, the loop is active and
\* goes on to the next line, and no exception leaves interactive_loop.
C11_LoopEndsOnQuitOrEof ==
  /\ loop_pc = "ended" => (eof \/ command = <<"quit">>)
  /\ (loop_pc # "input" /\ ~eof /\ command # <<"quit">>) =>
        loop_pc \in {"next", "await_list", "await_call"}
  /\ report # "none" => loop_pc = "next"
  /\ pc = "loop" /\ exc = "None"

C11_Witness == report = "tool_error" /\ loop_pc = "next" /\ ~eof

\* The argument a call line without argument text or with an object as
\* argument text is to pass.
ExpectedArguments(cmd) ==
  IF HasArgumentText(cmd) THEN ArgumentJson(cmd).value ELSE EmptyObj

\* The line in command is `call <name>` or `call <name> <json-object>`.
WellFormedCall(cmd) ==
  /\ StartsWithCall(cmd) /\ Len(Split(cmd, 2)) > 1
  /\ HasArgumentText(cmd) =>
       (ArgumentJson(cmd).ok /\ ArgumentJson(cmd).value.type = "object")

\* C12: a line causes at most one remote call, fixed by its parse: list
\* causes one list-tools call; call <name> one invocation of <name> with the
\* empty object; call <name> <json-object> one invocation with the parsed
\* object; any other line causes no remote call.
C12_OneCallPerParse ==
  loop_pc \notin {"idle", "input"} =>
    /\ ncalls <= 1
    /\ IF command = <<"list">>
         THEN ncalls = 1 /\ remote.op = "list_tools"
       ELSE IF WellFormedCall(command)
         THEN /\ ncalls = 1
              /\ remote = [op |-> "call_tool", name |-> Split(command, 2)[2],
                           arguments |-> ExpectedArguments(command)]
       ELSE ncalls = 0 /\ remote = NoRemote

\* A second or later call of stop() is in progress.
LaterStop == (pc = "stop" /\ stop_calls >= 1) \/ (pc = "stop_wait" /\ stop_calls >= 2)

\* C13: stop() is idempotent and total: called twice, called when start()
\* never ran or failed (at bind, or after the server object was made), or
\* called with no outcome recorded, it neither raises nor blocks forever (it
\* never waits for a serve_forever loop that was never started), and a
\* second call leaves the listener as the first one left it.
C13_StopTotalIdempotent ==
  /\ [](pc = "stop_wait" => thread \in {"running", "exited"})
  /\ [](pc = "cb_done" => exc \in {"None", "OSError", "RuntimeError"})
  /\ [][LaterStop => <<server_instance, thread, callback_data, lpc>>'
                       = <<server_instance, thread, callback_data, lpc>>]_vars

\* C14: callback_data is pending (no code, no error), a success (code, no
\* error) or a failure (error, no code and no state): never a code and an
\* error at once.
C14_OneOutcomeShape ==
  /\ ~(callback_data.authorization_code # None /\ callback_data.error # None)
  /\ callback_data.state # None => callback_data.authorization_code # None

\* C15: the wait does not keep the listener from handling a redirect, and
\* when a request with code has been handled before the timeout expired the
\* wait returns a code.
C15_CodeInTimeIsReturned ==
  /\ (pc \in WaitPcs /\ lpc = "idle" /\ nreq < MaxRequests) => ENABLED DoGetBegin
  /\ (pc = "cb_done" /\ code_in_time) => (exc = "None" /\ ret.code # None)

\* The listener finishes the request it is handling.
Answered == req # NoReq /\ req' = NoReq

\* C16: a GET with code records the request's code and its state (None when
\* it carries none), leaves the error field as it is (unset, when the
\* outcome was pending) and is answered with 200.
C16_CodeRequestRecorded ==
  [][req.code =>
       /\ callback_data'.error = callback_data.error
       /\ Answered => /\ callback_data'.authorization_code = req.id
                      /\ callback_data'.state = (IF req.state THEN req.id ELSE None)
                      /\ status' = 200]_vars

C16_Witness ==
  /\ nreq = 1 /\ lpc = "idle" /\ status = 200
  /\ callback_data = [authorization_code |-> 1, state |-> 1, error |-> None]

\* C17: a GET with error and without code records the request's error,
\* leaves code and state as they are (unset, when the outcome was pending)
\* and is answered with 400.
C17_ErrorRequestRecorded ==
  [][(req.error /\ ~req.code) =>
       /\ callback_data'.authorization_code = callback_data.authorization_code
       /\ callback_data'.state = callback_data.state
       /\ Answered => (callback_data'.error = req.id /\ status' = 400)]_vars

C17_Witness ==
  /\ nreq = 1 /\ lpc = "idle" /\ status = 400
  /\ callback_data = [authorization_code |-> None, state |-> None, error |-> 1]

\* C18: a GET with neither code nor error is answered with 404 and leaves
\* the three fields of callback_data as they are, whatever they hold.
C18_OtherRequestNotFound ==
  [][(req # NoReq /\ ~Terminal(req)) =>
       /\ callback_data' = callback_data
       /\ Answered => status' = 404]_vars

C18_Witness ==
  /\ nreq = 2 /\ lpc = "idle" /\ status = 404
  /\ callback_data.authorization_code = 1


\* C19: the redirect URI of the client metadata names the host and the
\* port the CallbackServer of this attempt was given and started on.
C19_RedirectNamesListener ==
  redirect_uri # NoAddr =>
    (server_instance # "None" /\ redirect_uri = cb_addr)

\* C20: when the browser cannot be opened the attempt goes on to wait for
\* the callback with no exception raised, and a code that the wait then
\* returns is passed on as the outcome of the authorization.
C20_BrowserFailureNotFatal ==
  /\ [][(browser = "no" /\ browser' = "failed") =>
          (pc' = "w_begin" /\ exc' = "None")]_vars
  /\ []((browser = "failed" /\ pc = "cb_done" /\ ret.code # None) => exc = "None")

C20_Witness ==
  /\ browser = "failed" /\ pc = "loop" /\ session = "open"
  /\ ret.code # None /\ exc = "None"

\* C21: the timeout error is raised only while the outcome is pending: at the
\* step that raises it callback_data holds neither a code nor an error.
C21_TimeoutOnlyWhilePending ==
  [][(exc = "None" /\ exc' = "Timeout") =>
       (callback_data.authorization_code = None /\ callback_data.error = None)]_vars

\* C22: once stop() has returned on a started listener the listener thread
\* is out of serve_forever with no request in hand, and from then on no
\* request is accepted and callback_data is never written.
C22_NoWriteAfterStop ==
  /\ [](server_instance = "closed" => (thread = "exited" /\ lpc = "idle" /\ req = NoReq))
  /\ [][server_instance = "closed" =>
          (callback_data' = callback_data /\ nreq' = nreq /\ status' = status)]_vars

\* stop() returned after a request that was between line 94 and line 95
\* when the foreground read the state: the request is recorded in full.
C22_Witness ==
  /\ server_instance = "closed" /\ pc = "cb_done" /\ nreq < MaxRequests
  /\ ret.code # None /\ ret.state = None
  /\ callback_data.authorization_code = ret.code /\ callback_data.state = ret.code

\* C23: a second invocation of callback_handler on the same CallbackServer
\* does not return the code the invocation before it returned.
C23_CodeHandedOnce ==
  [][(pc = "get_state" /\ pc' # "get_state" /\ ret # NoRet) => ret'.code # ret.code]_vars

====
